---- MODULE Spec2Model ----
(***************************************************************************)
(* Versioned file repository (src/app/app_server.py): the four request     *)
(* handlers upload_file, upload_new_version, download_file and delete_file *)
(* running concurrently against the metadata store (tables files,          *)
(* file_versions, upload_requests of src/app/models.py) and the blob store *)
(* (MinIO bucket).  Every handler is a sequence of steps, one per access   *)
(* to a shared store; what lies between two accesses is local to the       *)
(* request and belongs to the step that follows it.                        *)
(***************************************************************************)
EXTENDS Integers, Sequences, FiniteSets, TLC

\* ------------------------------------------------------------------ bounds
\* Number of requests the clients send in one behaviour.
MaxReqs == 3
\* Longest list of path segments given to _safe_join in KeySpec.
MaxParts == 4

Reqs == 1..MaxReqs

\* ------------------------------------------------------------- text values
\* A Python str is a sequence of one-character strings; None is told apart
\* from every str by its one element, which is no character.
NoneVal == <<"None">>

Whitespace == {" "}
Slash == {"/"}

DigitChar == <<"0", "1", "2", "3", "4", "5", "6", "7", "8", "9">>

\* str(n) for n >= 0
RECURSIVE Digits(_)
Digits(n) ==
    IF n < 10 THEN <<DigitChar[n + 1]>>
    ELSE Digits(n \div 10) \o <<DigitChar[(n % 10) + 1]>>

\* f"v{version}"
VTag(version) == <<"v">> \o Digits(version)

\* uuid4().hex of the n-th identifier generated: identifiers never collide.
Uuid4Hex(n) == <<"f">> \o Digits(n)

RECURSIVE LStrip(_, _)
LStrip(s, cs) ==
    IF s # <<>> /\ Head(s) \in cs THEN LStrip(Tail(s), cs) ELSE s

RECURSIVE RStrip(_, _)
RStrip(s, cs) ==
    IF s # <<>> /\ s[Len(s)] \in cs THEN RStrip(SubSeq(s, 1, Len(s) - 1), cs) ELSE s

\* str.strip(chars)
Strip(s, cs) == RStrip(LStrip(s, cs), cs)

\* "/".join(clean)
RECURSIVE JoinSlash(_)
JoinSlash(clean) ==
    IF clean = <<>> THEN <<>>
    ELSE IF Len(clean) = 1 THEN clean[1]
    ELSE clean[1] \o <<"/">> \o JoinSlash(Tail(clean))

\* The loop of _safe_join: the parts kept, in order.
RECURSIVE SafeClean(_)
SafeClean(parts) ==
    IF parts = <<>> THEN <<>>
    ELSE LET p0 == Head(parts)
             p  == Strip(Strip(p0, Whitespace), Slash)
         IN  IF p0 = NoneVal \/ p0 = <<>> THEN SafeClean(Tail(parts))
             ELSE IF p = <<".">> \/ p = <<".", ".">> THEN SafeClean(Tail(parts))
             ELSE <<p>> \o SafeClean(Tail(parts))

_safe_join(parts) == JoinSlash(SafeClean(parts))

\* The components of a key: the text between its slashes.
RECURSIVE Components(_)
Components(s) ==
    IF \A i \in 1..Len(s) : s[i] # "/" THEN <<s>>
    ELSE LET i == CHOOSE k \in 1..Len(s) :
                      s[k] = "/" /\ \A j \in 1..(k - 1) : s[j] # "/"
         IN  <<SubSeq(s, 1, i - 1)>> \o Components(SubSeq(s, i + 1, Len(s)))

\* ------------------------------------------------------------------ inputs
\* Contents a client uploads (byte sequences), Idempotency-Key headers and
\* ?dir= values a client sends.
Contents == {<<1>>, <<2, 3>>}
Tokens == {NoneVal, <<"t">>}
Dirs == {NoneVal}
\* The identifiers uuid4 generates in one behaviour, by their numbers.
Uuids == {1, 2}
\* ?version= of a download: an Optional[int], {} for None and {n} for n.
VersionArgs == {{}, {1}, {2}}

SERVER_NAME == <<"a", "p", "p">>

\* ------------------------------------------------------------------- state
VARIABLES
    files,      \* table files: file_id -> [current_version, path, deleted]
    versions,   \* table file_versions: the rows, in insertion (id) order
    uploads,    \* table upload_requests: idempotency_key -> result_json
    blobs,      \* bucket MINIO_BUCKET: object_key -> bytes
    issued,     \* number of identifiers uuid4 has generated
    req,        \* the requests in flight: each one's handler, position, locals
    out,        \* the response sent last
    acked,      \* the uploads answered with success: what was sent and returned
    parts,      \* KeySpec: the arguments of a call of _safe_join
    key         \* KeySpec: the key that call returned

vars == <<files, versions, uploads, blobs, issued, req, out, acked, parts, key>>
stores == <<files, versions, uploads, blobs>>
metadata == <<files, versions, uploads>>

Idle ==
    [op |-> "none", pc |-> "idle", file_id |-> NoneVal, token |-> NoneVal,
     content |-> <<>>, version |-> 0, object_key |-> <<>>, checksum |-> <<>>,
     size |-> 0, todo |-> <<>>, blob |-> "none", body |-> [detail |-> "none"]]

\* A handler that has returned or raised: its locals are gone.
Done == [Idle EXCEPT !.pc = "done"]

NoOut ==
    [op |-> "none", file_id |-> NoneVal, token |-> NoneVal, version |-> 0,
     blob |-> "none", status |-> 0, body |-> [detail |-> "none"]]

NoKey == [by |-> "none", value |-> <<>>]

\* Requests arrive in the order of their slots.
Arrives(r) ==
    /\ req[r].pc = "idle"
    /\ \A q \in Reqs : q < r => req[q].pc # "idle"

\* Request r, its locals being q, goes on.
Goes(r, q) ==
    /\ req' = [req EXCEPT ![r] = q]
    /\ out' = out

\* Request r, its locals being q, is answered with status and body.
Responds(r, q, status, body) ==
    /\ req' = [req EXCEPT ![r] = Done]
    /\ out' = [op |-> q.op, file_id |-> q.file_id, token |-> q.token,
               version |-> q.version, blob |-> q.blob, status |-> status,
               body |-> body]

\* An unhandled exception: FastAPI answers 500.
Raises(r, q) == Responds(r, q, 500, [detail |-> "Internal Server Error"])

\* raise HTTPException(status_code=404, detail=...)
NotFound(r, q, detail) == Responds(r, q, 404, [detail |-> detail])

\* The upload of q's content was answered with success.
Ack(q, body) ==
    [op |-> q.op, token |-> q.token, file_id |-> q.file_id, version |-> q.version,
     content |-> q.content, body |-> body]

\* hashlib.sha256: update appends to the hashed text, hexdigest names it.
Sha256Update(h, chunk) == h \o chunk
HexDigest(h) == <<"sha256", h>>

\* The read loop of an upload: 64 KiB chunks fed to the digest and counted.
CHUNK == 65536
RECURSIVE ReadLoop(_, _, _)
ReadLoop(rest, h, size) ==
    IF rest = <<>> THEN [checksum |-> HexDigest(h), size |-> size]
    ELSE LET n     == IF Len(rest) < CHUNK THEN Len(rest) ELSE CHUNK
             chunk == SubSeq(rest, 1, n)
         IN  ReadLoop(SubSeq(rest, n + 1, Len(rest)), Sha256Update(h, chunk),
                      size + Len(chunk))

\* json.dumps / json.loads of the result of upload_file
Dumps(result) ==
    << <<"file_id", result.file_id>>, <<"path", result.path>>,
       <<"version", result.version>>, <<"checksum", result.checksum>>,
       <<"size", result.size>>, <<"server", result.server>> >>
Loads(js) ==
    [file_id |-> js[1][2], path |-> js[2][2], version |-> js[3][2],
     checksum |-> js[4][2], size |-> js[5][2], server |-> js[6][2]]

Put(store, k, v) == [x \in DOMAIN store \cup {k} |-> IF x = k THEN v ELSE store[x]]
Remove(store, k) == [x \in DOMAIN store \ {k} |-> store[x]]

\* select(FileVersionModel).where(file_id == f), in table order
RECURSIVE RowsOf(_, _)
RowsOf(rows, f) ==
    IF rows = <<>> THEN <<>>
    ELSE IF Head(rows).file_id = f THEN <<Head(rows)>> \o RowsOf(Tail(rows), f)
    ELSE RowsOf(Tail(rows), f)

\* FileVersionModel.__table__.delete().where(file_id == f)
RECURSIVE RowsNotOf(_, _)
RowsNotOf(rows, f) ==
    IF rows = <<>> THEN <<>>
    ELSE IF Head(rows).file_id = f THEN RowsNotOf(Tail(rows), f)
    ELSE <<Head(rows)>> \o RowsNotOf(Tail(rows), f)

\* The identifiers a client can name: uuid4 is not guessable, so those of the
\* files created and answered, and one that names no file.
FileIds == DOMAIN files \cup {Uuid4Hex(0)}

Init ==
    /\ files = <<>>
    /\ versions = <<>>
    /\ uploads = <<>>
    /\ blobs = <<>>
    /\ issued = 0
    /\ req = [r \in Reqs |-> Idle]
    /\ out = NoOut
    /\ acked = {}
    /\ parts = <<>>
    /\ key = NoKey

\* `if x:` for an Optional[str]
Truthy(x) == x # NoneVal /\ x # <<>>

\* The exception is swallowed and the handler goes on to its commit.
UploadRaiseSwallowed(r, next) ==
    Goes(r, [req[r] EXCEPT !.blob = "failed", !.pc = next])

\* An exception inside the try block of an upload (file.read or fput_object):
\* the finally clause removes the spool file and the exception leaves the
\* handler.
UploadRaise(r, next) ==
    Raises(r, [req[r] EXCEPT !.blob = "failed"])

\* The try block of an upload: the stream is read and hashed, then the spool
\* file is put under object_key.  failure is "none", "read" or "put".
UploadBlob(r, failure, next) ==
    /\ failure \in {"none", "read", "put"}
    /\ IF failure = "none"
       THEN LET d == ReadLoop(req[r].content, <<>>, 0)
            IN  /\ blobs' = Put(blobs, req[r].object_key, req[r].content)
                /\ Goes(r, [req[r] EXCEPT !.checksum = d.checksum, !.size = d.size,
                                          !.blob = "written", !.pc = next])
       ELSE /\ blobs' = blobs
            /\ UploadRaise(r, next)

\* ------------------------------------------------- upload_file (createFile)
\* The lookup that never finds a row.
IdempotencyLookupMiss(idempotency_key) == NoneVal

\* The idempotency lookup (its own transaction).
IdempotencyLookup(idempotency_key) ==
    IF Truthy(idempotency_key) /\ idempotency_key \in DOMAIN uploads
    THEN uploads[idempotency_key]
    ELSE NoneVal

\* Lines 241-242: the object key of a new file.
UploadFileKey(dir, file_id, version) ==
    LET prefix == IF Truthy(dir) THEN _safe_join(<<dir>>) ELSE <<>>
    IN  _safe_join(<<prefix, file_id, VTag(version)>>)

\* Lines 224-242: the request arrives; a stored result is replayed, else the
\* identifier and the object key are made.
UploadFileLookup(r, content, dir, idempotency_key) ==
    /\ Arrives(r)
    /\ LET found == IdempotencyLookup(idempotency_key)
           q0    == [req[r] EXCEPT !.op = "upload_file", !.content = content,
                                   !.token = idempotency_key]
       IN  IF found # NoneVal
           THEN /\ Responds(r, q0, 201, Loads(found))
                /\ UNCHANGED issued
           ELSE /\ issued + 1 \in Uuids
                /\ LET file_id == Uuid4Hex(issued + 1)
                       version == 1
                   IN  Goes(r, [q0 EXCEPT !.file_id = file_id, !.version = version,
                                          !.object_key =
                                              UploadFileKey(dir, file_id, version),
                                          !.pc = "put"])
                /\ issued' = issued + 1
    /\ UNCHANGED <<stores, acked, parts, key>>

\* Lines 244-267.
UploadFilePut(r, failure) ==
    /\ req[r].op = "upload_file" /\ req[r].pc = "put"
    /\ UploadBlob(r, failure, "commit")
    /\ UNCHANGED <<metadata, issued, acked, parts, key>>

UploadFileResult(q) ==
    [file_id |-> q.file_id, path |-> q.object_key, version |-> q.version,
     checksum |-> q.checksum, size |-> q.size, server |-> SERVER_NAME]

\* A request with a token goes on to record its result before any row of
\* its file is committed.
UploadFileCommitSkipped(r) ==
    /\ req[r].op = "upload_file" /\ req[r].pc = "commit"
    /\ LET q == req[r]
       IN  IF Truthy(q.token)
           THEN /\ files' = files
                /\ versions' = versions
                /\ Goes(r, [q EXCEPT !.pc = "record", !.body = UploadFileResult(q)])
                /\ acked' = acked
           ELSE /\ files' = Put(files, q.file_id,
                                [current_version |-> q.version, path |-> q.object_key,
                                 deleted |-> FALSE])
                /\ versions' = Append(versions,
                                      [file_id |-> q.file_id, version |-> q.version,
                                       object_key |-> q.object_key,
                                       checksum |-> q.checksum, size |-> q.size])
                /\ Responds(r, q, 201, UploadFileResult(q))
                /\ acked' = acked \cup {Ack(q, UploadFileResult(q))}
    /\ UNCHANGED <<uploads, blobs, issued, parts, key>>

\* The file row is committed without its first version row.
UploadFileCommitFileOnly(r) ==
    /\ req[r].op = "upload_file" /\ req[r].pc = "commit"
    /\ LET q == req[r]
       IN  /\ files' = Put(files, q.file_id,
                           [current_version |-> q.version, path |-> q.object_key,
                            deleted |-> FALSE])
           /\ versions' = versions
           /\ IF Truthy(q.token)
              THEN /\ Goes(r, [q EXCEPT !.pc = "record", !.body = UploadFileResult(q)])
                   /\ acked' = acked
              ELSE /\ Responds(r, q, 201, UploadFileResult(q))
                   /\ acked' = acked \cup {Ack(q, UploadFileResult(q))}
    /\ UNCHANGED <<uploads, blobs, issued, parts, key>>

\* Lines 269-290: one transaction adds the file row and its first version row.
UploadFileCommit(r) ==
    /\ req[r].op = "upload_file" /\ req[r].pc = "commit"
    /\ LET q == req[r]
       IN  /\ files' = Put(files, q.file_id,
                           [current_version |-> q.version, path |-> q.object_key,
                            deleted |-> FALSE])
           /\ versions' = Append(versions,
                                 [file_id |-> q.file_id, version |-> q.version,
                                  object_key |-> q.object_key, checksum |-> q.checksum,
                                  size |-> q.size])
           /\ IF Truthy(q.token)
              THEN /\ Goes(r, [q EXCEPT !.pc = "record", !.body = UploadFileResult(q)])
                   /\ acked' = acked
              ELSE /\ Responds(r, q, 201, UploadFileResult(q))
                   /\ acked' = acked \cup {Ack(q, UploadFileResult(q))}
    /\ UNCHANGED <<uploads, blobs, issued, parts, key>>

\* Lines 292-315: the idempotency row is added and the transaction commits.
\* session.add only marks the row pending; the INSERT runs when the
\* `async with session.begin()` block commits, outside the try, so the
\* unique violation on idempotency_key leaves the handler.
UploadFileRecord(r) ==
    /\ req[r].op = "upload_file" /\ req[r].pc = "record"
    /\ LET q == req[r]
       IN  IF q.token \in DOMAIN uploads
           THEN /\ uploads' = uploads
                /\ Raises(r, q)
                /\ acked' = acked
           ELSE /\ uploads' = Put(uploads, q.token, Dumps(q.body))
                /\ Responds(r, q, 201, q.body)
                /\ acked' = acked \cup {Ack(q, q.body)}
    /\ UNCHANGED <<files, versions, blobs, issued, parts, key>>

\* ------------------------------------------ upload_new_version (addVersion)
\* Lines 321-332: the file row is read in a transaction of its own.
UploadNewVersionRead(r, file_id, content) ==
    /\ Arrives(r)
    /\ LET q0 == [req[r] EXCEPT !.op = "upload_new_version", !.file_id = file_id,
                                !.content = content]
       IN  IF file_id \notin DOMAIN files
           THEN NotFound(r, q0, "file not found")
           ELSE LET new_version == files[file_id].current_version + 1
                IN  Goes(r, [q0 EXCEPT !.version = new_version,
                                       !.object_key =
                                           _safe_join(<<file_id, VTag(new_version)>>),
                                       !.pc = "put"])
    /\ UNCHANGED <<stores, issued, acked, parts, key>>

\* Lines 333-356.
UploadNewVersionPut(r, failure) ==
    /\ req[r].op = "upload_new_version" /\ req[r].pc = "put"
    /\ UploadBlob(r, failure, "commit")
    /\ UNCHANGED <<metadata, issued, acked, parts, key>>

\* The version row is written as an upsert: a row of the file with the same
\* version number is overwritten in place, else the row is inserted.
UploadNewVersionCommitUpsert(r) ==
    /\ req[r].op = "upload_new_version" /\ req[r].pc = "commit"
    /\ LET q    == req[r]
           body == [file_id |-> q.file_id, version |-> q.version,
                    checksum |-> q.checksum, size |-> q.size, server |-> SERVER_NAME]
           row  == [file_id |-> q.file_id, version |-> q.version,
                    object_key |-> q.object_key, checksum |-> q.checksum,
                    size |-> q.size]
           hit(v) == v.file_id = q.file_id /\ v.version = q.version
       IN  /\ versions' = IF \E i \in 1..Len(versions) : hit(versions[i])
                          THEN [i \in 1..Len(versions) |->
                                   IF hit(versions[i]) THEN row ELSE versions[i]]
                          ELSE Append(versions, row)
           /\ files' = [f \in DOMAIN files |->
                           IF f = q.file_id
                           THEN [files[f] EXCEPT !.current_version = q.version,
                                                 !.path = q.object_key]
                           ELSE files[f]]
           /\ Responds(r, q, 200, body)
           /\ acked' = acked \cup {Ack(q, body)}
    /\ UNCHANGED <<uploads, blobs, issued, parts, key>>

\* The file row's current_version is moved and its path is left as it was.
UploadNewVersionCommitStalePath(r) ==
    /\ req[r].op = "upload_new_version" /\ req[r].pc = "commit"
    /\ LET q    == req[r]
           body == [file_id |-> q.file_id, version |-> q.version,
                    checksum |-> q.checksum, size |-> q.size, server |-> SERVER_NAME]
       IN  /\ versions' = Append(versions,
                                 [file_id |-> q.file_id, version |-> q.version,
                                  object_key |-> q.object_key, checksum |-> q.checksum,
                                  size |-> q.size])
           /\ files' = [f \in DOMAIN files |->
                           IF f = q.file_id
                           THEN [files[f] EXCEPT !.current_version = q.version]
                           ELSE files[f]]
           /\ Responds(r, q, 200, body)
           /\ acked' = acked \cup {Ack(q, body)}
    /\ UNCHANGED <<uploads, blobs, issued, parts, key>>

\* The file row is moved to the new version and the version row is not
\* inserted with it.
UploadNewVersionCommitNoRow(r) ==
    /\ req[r].op = "upload_new_version" /\ req[r].pc = "commit"
    /\ LET q    == req[r]
           body == [file_id |-> q.file_id, version |-> q.version,
                    checksum |-> q.checksum, size |-> q.size, server |-> SERVER_NAME]
       IN  /\ versions' = versions
           /\ files' = [f \in DOMAIN files |->
                           IF f = q.file_id
                           THEN [files[f] EXCEPT !.current_version = q.version,
                                                 !.path = q.object_key]
                           ELSE files[f]]
           /\ Responds(r, q, 200, body)
           /\ acked' = acked \cup {Ack(q, body)}
    /\ UNCHANGED <<uploads, blobs, issued, parts, key>>

\* Lines 358-380: one transaction adds the version row and moves the file
\* row's current_version and path.
UploadNewVersionCommit(r) ==
    /\ req[r].op = "upload_new_version" /\ req[r].pc = "commit"
    /\ LET q    == req[r]
           body == [file_id |-> q.file_id, version |-> q.version,
                    checksum |-> q.checksum, size |-> q.size, server |-> SERVER_NAME]
       IN  /\ versions' = Append(versions,
                                 [file_id |-> q.file_id, version |-> q.version,
                                  object_key |-> q.object_key, checksum |-> q.checksum,
                                  size |-> q.size])
           /\ files' = [f \in DOMAIN files |->
                           IF f = q.file_id
                           THEN [files[f] EXCEPT !.current_version = q.version,
                                                 !.path = q.object_key]
                           ELSE files[f]]
           /\ Responds(r, q, 200, body)
           /\ acked' = acked \cup {Ack(q, body)}
    /\ UNCHANGED <<uploads, blobs, issued, parts, key>>

\* ------------------------------------------------- download_file (resolve)
\* Lines 397-405: the version row is selected; scalar_one_or_none raises
\* MultipleResultsFound when several rows match.
SelectVersion(r, q) ==
    LET rows == SelectSeq(RowsOf(versions, q.file_id),
                          LAMBDA v : v.version = q.version)
    IN  IF rows = <<>> THEN NotFound(r, q, "file version not found")
        ELSE IF Len(rows) > 1 THEN Raises(r, q)
        ELSE Goes(r, [q EXCEPT !.object_key = rows[1].object_key,
                               !.checksum = rows[1].checksum, !.pc = "get"])

\* Lines 386-396: the request arrives; without ?version= the file row gives
\* the version, with it the version row is selected at once.
DownloadFileRow(r, file_id, version) ==
    /\ Arrives(r)
    /\ LET q0 == [req[r] EXCEPT !.op = "download_file", !.file_id = file_id]
       IN  IF version = {}
           THEN IF file_id \notin DOMAIN files
                THEN NotFound(r, q0, "file not found")
                ELSE Goes(r, [q0 EXCEPT !.version = files[file_id].current_version,
                                        !.pc = "vrow"])
           ELSE SelectVersion(r, [q0 EXCEPT !.version = CHOOSE n \in version : TRUE])
    /\ UNCHANGED <<stores, issued, acked, parts, key>>

\* Lines 397-405 after the file row was read: the second statement of the
\* transaction sees what was committed since the first (READ COMMITTED).
DownloadFileVersion(r) ==
    /\ req[r].op = "download_file" /\ req[r].pc = "vrow"
    /\ SelectVersion(r, req[r])
    /\ UNCHANGED <<stores, issued, acked, parts, key>>

\* Lines 407-433: get_object raises when the key names no blob; the body
\* streams the blob and the ETag is the row's checksum.
DownloadFileGet(r) ==
    /\ req[r].op = "download_file" /\ req[r].pc = "get"
    /\ LET q == req[r]
       IN  IF q.object_key \notin DOMAIN blobs
           THEN Raises(r, q)
           ELSE Responds(r, q, 200,
                         [bytes |-> blobs[q.object_key],
                          etag |-> IF q.checksum # <<>> THEN q.checksum ELSE NoneVal])
    /\ UNCHANGED <<stores, issued, acked, parts, key>>

\* --------------------------------------------------- delete_file (deleteFile)
RECURSIVE KeysOf(_)
KeysOf(rows) ==
    IF rows = <<>> THEN <<>> ELSE <<Head(rows).object_key>> \o KeysOf(Tail(rows))

\* Lines 439-451: the transaction begins; the file row and the version rows
\* are read.
DeleteFileRead(r, file_id) ==
    /\ Arrives(r)
    /\ LET q0 == [req[r] EXCEPT !.op = "delete_file", !.file_id = file_id]
       IN  IF file_id \notin DOMAIN files
           THEN NotFound(r, q0, "file not found")
           ELSE LET todo == KeysOf(RowsOf(versions, file_id))
                IN  Goes(r, [q0 EXCEPT !.todo = todo,
                                       !.pc = IF todo = <<>> THEN "commit"
                                              ELSE "remove"])
    /\ UNCHANGED <<stores, issued, acked, parts, key>>

\* The exception of remove_object is not caught and leaves the handler.
DeleteFileRemoveRaises(r, ok) ==
    /\ req[r].op = "delete_file" /\ req[r].pc = "remove"
    /\ LET q == req[r]
       IN  IF ok
           THEN /\ blobs' = Remove(blobs, Head(q.todo))
                /\ Goes(r, [q EXCEPT !.todo = Tail(q.todo),
                                     !.pc = IF Tail(q.todo) = <<>> THEN "commit"
                                            ELSE "remove"])
           ELSE /\ blobs' = blobs
                /\ Raises(r, q)
    /\ UNCHANGED <<metadata, issued, acked, parts, key>>

\* Lines 453-459: one turn of the loop; an exception of remove_object is
\* printed and the loop goes on.
DeleteFileRemove(r, ok) ==
    /\ req[r].op = "delete_file" /\ req[r].pc = "remove"
    /\ LET q == req[r]
       IN  /\ blobs' = IF ok THEN Remove(blobs, Head(q.todo)) ELSE blobs
           /\ Goes(r, [q EXCEPT !.todo = Tail(q.todo),
                                !.pc = IF Tail(q.todo) = <<>> THEN "commit"
                                       ELSE "remove"])
    /\ UNCHANGED <<metadata, issued, acked, parts, key>>

\* Lines 461-472: the file row is flagged, the version rows are deleted and
\* the transaction commits.
DeleteFileCommit(r) ==
    /\ req[r].op = "delete_file" /\ req[r].pc = "commit"
    /\ LET q == req[r]
       IN  /\ files' = [f \in DOMAIN files |->
                           IF f = q.file_id THEN [files[f] EXCEPT !.deleted = TRUE]
                           ELSE files[f]]
           /\ versions' = RowsNotOf(versions, q.file_id)
           /\ Responds(r, q, 200, [status |-> "deleted", file_id |-> q.file_id])
    /\ UNCHANGED <<uploads, blobs, issued, acked, parts, key>>

\* ----------------------------------------------------------- specification
\* A transaction that fails to commit leaves the stores as they are, like a
\* request that has not taken its commit step yet.
Next ==
    \E r \in Reqs :
        \/ \E c \in Contents, d \in Dirs, t \in Tokens : UploadFileLookup(r, c, d, t)
        \/ \E f \in {"none", "read", "put"} : UploadFilePut(r, f)
        \/ UploadFileCommit(r)
        \/ UploadFileRecord(r)
        \/ \E f \in FileIds, c \in Contents : UploadNewVersionRead(r, f, c)
        \/ \E f \in {"none", "read", "put"} : UploadNewVersionPut(r, f)
        \/ UploadNewVersionCommit(r)
        \/ \E f \in FileIds, v \in VersionArgs : DownloadFileRow(r, f, v)
        \/ DownloadFileVersion(r)
        \/ DownloadFileGet(r)
        \/ \E f \in FileIds : DeleteFileRead(r, f)
        \/ \E ok \in BOOLEAN : DeleteFileRemove(r, ok)
        \/ DeleteFileCommit(r)

Spec == Init /\ [][Next]_vars

\* The store as one upload_file without Idempotency-Key leaves it (Spec
\* reaches it with its first request): the database and the bucket outlive
\* the server process, which may start on them.
StoredQ ==
    LET d == ReadLoop(<<1>>, <<>>, 0)
    IN  [Idle EXCEPT !.op = "upload_file", !.content = <<1>>, !.file_id = Uuid4Hex(1),
                     !.version = 1,
                     !.object_key = UploadFileKey(NoneVal, Uuid4Hex(1), 1),
                     !.checksum = d.checksum, !.size = d.size, !.blob = "written"]

InitStored ==
    /\ files = Put(<<>>, StoredQ.file_id,
                   [current_version |-> 1, path |-> StoredQ.object_key,
                    deleted |-> FALSE])
    /\ versions = <<[file_id |-> StoredQ.file_id, version |-> 1,
                     object_key |-> StoredQ.object_key,
                     checksum |-> StoredQ.checksum, size |-> StoredQ.size]>>
    /\ uploads = <<>>
    /\ blobs = Put(<<>>, StoredQ.object_key, StoredQ.content)
    /\ issued = 1
    /\ req = [r \in Reqs |-> Idle]
    /\ out = [op |-> "upload_file", file_id |-> StoredQ.file_id, token |-> NoneVal,
              version |-> 1, blob |-> "written", status |-> 201,
              body |-> UploadFileResult(StoredQ)]
    /\ acked = {Ack(StoredQ, UploadFileResult(StoredQ))}
    /\ parts = <<>>
    /\ key = NoKey

SpecStored == InitStored /\ [][Next]_vars

\* ---------------------------------------------------------- the Key Builder
\* Path segments a client supplies.
Segments ==
    { <<".", ".">>, <<"a">>, <<".">>,
      <<".", ".", "/", ".", ".", "/", "e", "t", "c">>,
      <<"/", ".", ".", "/">>, <<" ", "b", "/">> }

RECURSIVE SeqsUpTo(_)
SeqsUpTo(n) ==
    IF n = 0 THEN {<<>>}
    ELSE LET shorter == SeqsUpTo(n - 1)
         IN  shorter \cup {Append(p, x) : p \in shorter, x \in Segments}

\* _safe_join(*segments, file_id, f"v{version}")
SafeJoinCall(file_id, version) ==
    /\ key = NoKey
    /\ key' = [by |-> "_safe_join",
               value |-> _safe_join(parts \o <<file_id, VTag(version)>>)]
    /\ UNCHANGED <<stores, issued, req, out, acked, parts>>

\* The key upload_file builds for ?dir= (one segment, or none).
UploadFileKeyCall(file_id) ==
    /\ key = NoKey
    /\ Len(parts) <= 1
    /\ key' = [by |-> "upload_file",
               value |-> UploadFileKey(IF parts = <<>> THEN NoneVal ELSE parts[1],
                                       file_id, 1)]
    /\ UNCHANGED <<stores, issued, req, out, acked, parts>>

InitKey ==
    /\ files = <<>>
    /\ versions = <<>>
    /\ uploads = <<>>
    /\ blobs = <<>>
    /\ issued = 0
    /\ req = [r \in Reqs |-> Idle]
    /\ out = NoOut
    /\ acked = {}
    /\ parts \in SeqsUpTo(MaxParts)
    /\ key = NoKey

NextKey ==
    \/ \E v \in {1, 2} : SafeJoinCall(<<"F">>, v)
    \/ UploadFileKeyCall(<<"F">>)

KeySpec == InitKey /\ [][NextKey]_vars

\* ------------------------------------------------------------------ claims
\* The digest and the size of content c, as an upload computes them.
DigestOf(c) == ReadLoop(c, <<>>, 0).checksum

\* The handler and the file_id of the request that arrives in this step.
Arrival(r) == req[r].pc = "idle" /\ req'[r].pc # "idle"
ArrivedOp(r) == IF req'[r] = Done THEN out'.op ELSE req'[r].op
ArrivedFile(r) == IF req'[r] = Done THEN out'.file_id ELSE req'[r].file_id
ArrivedToken(r) == IF req'[r] = Done THEN out'.token ELSE req'[r].token

\* C1: no two version rows of one file share a version number, whatever the
\* interleaving of upload_new_version calls.
C1_VersionsUnique ==
    \A i, j \in DOMAIN versions :
        (i # j /\ versions[i].file_id = versions[j].file_id)
            => versions[i].version # versions[j].version

\* The files committed by upload_file calls that carried token t: those of
\* the calls past their commit and those of the calls answered with success.
CommittedFor(t) ==
    {req[r].file_id : r \in {x \in Reqs : /\ req[x].op = "upload_file"
                                           /\ req[x].pc = "record"
                                           /\ req[x].token = t}}
    \cup {a.file_id : a \in {x \in acked : x.op = "upload_file" /\ x.token = t}}

\* C2: for every idempotency token at most one upload_file call carrying it
\* commits a file row and version row.
C2_OneUploadPerToken ==
    \A t \in Tokens :
        Truthy(t) => Cardinality(CommittedFor(t) \cap DOMAIN files) <= 1

\* C3: every object_key of a version row names a blob of the bucket.
C3_NoDanglingMetadata ==
    \A i \in DOMAIN versions : versions[i].object_key \in DOMAIN blobs

\* C4: for every file row not flagged deleted, current_version is the
\* largest version among the file's version rows.
C4_CurrentVersionIsMax ==
    \A f \in DOMAIN files :
        ~files[f].deleted =>
            /\ \E i \in DOMAIN versions :
                   /\ versions[i].file_id = f
                   /\ versions[i].version = files[f].current_version
            /\ \A i \in DOMAIN versions :
                   versions[i].file_id = f
                       => versions[i].version <= files[f].current_version

\* C5: a request whose blob write failed is answered 500 in that step and no
\* step it takes, then or later, changes a row of the metadata store.
C5_BlobFailureLeavesMetadata ==
    [][\A r \in Reqs :
          ( /\ req'[r] # req[r]
            /\ \/ req[r].blob = "failed"
               \/ req'[r].blob = "failed"
               \/ (req'[r] = Done /\ out'.blob = "failed") )
          => ( /\ metadata' = metadata
               /\ req'[r] = Done
               /\ out'.status = 500 )]_vars

\* C5 witness: an upload_new_version on an existing file was answered 500
\* after its blob write failed.
C5_Witness ==
    /\ out.op = "upload_new_version"
    /\ out.blob = "failed"
    /\ out.status = 500
    /\ out.file_id \in DOMAIN files

\* C6: once an upload_file carrying token T was answered with success, an
\* upload_file carrying T that arrives is answered at once with the same
\* result, and writes no blob and no row.
C6_ReplayReturnsFirstResult ==
    [][\A r \in Reqs : \A a \in acked :
          ( /\ Arrival(r)
            /\ ArrivedOp(r) = "upload_file"
            /\ a.op = "upload_file"
            /\ Truthy(a.token)
            /\ ArrivedToken(r) = a.token )
          => ( /\ req'[r] = Done
               /\ out'.status = 201
               /\ out'.body = a.body
               /\ stores' = stores
               /\ issued' = issued
               /\ acked' = acked )]_vars

\* C6 witness: the last response is a replay (the handler made no file_id of
\* its own) of the result an earlier call with the same token was given.
C6_Witness ==
    /\ out.op = "upload_file"
    /\ out.status = 201
    /\ out.file_id = NoneVal
    /\ \E a \in acked : a.token = out.token /\ a.body = out.body

\* C7: once delete_file has flagged a file deleted (it answers success in the
\* same step), the metadata store holds no version row of that file.
C7_DeletedHasNoVersions ==
    \A f \in DOMAIN files : files[f].deleted => RowsOf(versions, f) = <<>>

\* C8: a download answered with success streams the bytes, and reports the
\* digest, of the content of the upload that was answered with that file_id,
\* version and checksum.
C8_RoundTrip ==
    [][\A r \in Reqs : \A a \in acked :
          ( /\ req[r].op = "download_file" /\ req[r].pc = "get"
            /\ req'[r] = Done /\ out'.status = 200
            /\ a.file_id = req[r].file_id
            /\ a.version = req[r].version
            /\ a.body.checksum = req[r].checksum )
          => ( /\ out'.body.bytes = a.content
               /\ out'.body.etag = DigestOf(a.content) )]_vars

\* The example of the Key Builder: segments "..", "a", ".", "../../etc".
ExampleParts ==
    << <<".", ".">>, <<"a">>, <<".">>,
       <<".", ".", "/", ".", ".", "/", "e", "t", "c">> >>

\* C9: no component of a key built from client-supplied segments is ".." or
\* ".", and the example's segments with file id F give a/etc/F/v1 (v2).
C9_KeyHasNoDotComponents ==
    key # NoKey =>
        /\ \A i \in DOMAIN Components(key.value) :
               Components(key.value)[i] \notin {<<".", ".">>, <<".">>}
        /\ (parts = ExampleParts /\ key.by = "_safe_join")
               => SubSeq(key.value, 1, 8) = <<"a", "/", "e", "t", "c", "/", "F", "/">>

\* C10: an upload_new_version that arrives for a file_id with no file row, or
\* with a file row flagged deleted, is answered 404 at once and changes
\* neither store.
C10_AddVersionNotFound ==
    [][\A r \in Reqs :
          ( /\ Arrival(r)
            /\ ArrivedOp(r) = "upload_new_version"
            /\ \/ ArrivedFile(r) \notin DOMAIN files
               \/ files[ArrivedFile(r)].deleted )
          => ( /\ req'[r] = Done
               /\ out'.status = 404
               /\ stores' = stores )]_vars

\* C11: a delete_file that arrives for a file_id with no file row, or with a
\* file row already flagged deleted, is answered 404 at once, attempts no
\* blob removal and changes neither store.
C11_DeleteNotFound ==
    [][\A r \in Reqs :
          ( /\ Arrival(r)
            /\ ArrivedOp(r) = "delete_file"
            /\ \/ ArrivedFile(r) \notin DOMAIN files
               \/ files[ArrivedFile(r)].deleted )
          => ( /\ req'[r] = Done
               /\ out'.status = 404
               /\ stores' = stores )]_vars

\* C12: delete_file takes the keys of all the version rows it read; each turn
\* of its loop attempts the next key and goes on to the one after it whether
\* the removal failed or not; after the last turn the commit flags the file
\* deleted, removes its version rows and answers success.
C12_DeleteIsBestEffort ==
    [][\A r \in Reqs :
          /\ ( /\ Arrival(r)
               /\ ArrivedOp(r) = "delete_file"
               /\ ArrivedFile(r) \in DOMAIN files )
             => ( /\ req'[r].todo = KeysOf(RowsOf(versions, ArrivedFile(r)))
                  /\ req'[r].pc = IF req'[r].todo = <<>> THEN "commit" ELSE "remove" )
          /\ ( /\ req[r].op = "delete_file" /\ req[r].pc = "remove"
               /\ req'[r] # req[r] )
             => ( /\ blobs' \in {blobs, Remove(blobs, Head(req[r].todo))}
                  /\ req'[r].op = "delete_file"
                  /\ req'[r].todo = Tail(req[r].todo)
                  /\ req'[r].pc = IF Tail(req[r].todo) = <<>> THEN "commit"
                                  ELSE "remove" )
          /\ ( /\ req[r].op = "delete_file" /\ req[r].pc = "commit"
               /\ req'[r] # req[r] )
             => ( /\ req'[r] = Done
                  /\ out'.status = 200
                  /\ out'.body = [status |-> "deleted", file_id |-> req[r].file_id]
                  /\ files'[req[r].file_id].deleted
                  /\ RowsOf(versions', req[r].file_id) = <<>> )]_vars

\* C12 witness: a delete_file was answered with success although the removal
\* of the blob of version 1 failed: the file is flagged deleted, its rows
\* are gone and the blob is still in the bucket.
C12_Witness ==
    /\ out.op = "delete_file"
    /\ out.status = 200
    /\ files[out.file_id].deleted
    /\ RowsOf(versions, out.file_id) = <<>>
    /\ UploadFileKey(NoneVal, out.file_id, 1) \in DOMAIN blobs

\* C13: in every state a file row is flagged deleted if and only if no
\* version row exists for its file_id.
C13_DeletedIffNoVersions ==
    \A f \in DOMAIN files :
        files[f].deleted <=> RowsOf(versions, f) = <<>>

\* C14: a create whose recording step finds the token already recorded by
\* another create does not end in an error: it is answered 201 with the
\* stored result of the winner, and the record of the token stays as it is.
C14_LoserReturnsWinnersResult ==
    [][\A r \in Reqs :
          ( /\ req[r].op = "upload_file" /\ req[r].pc = "record"
            /\ req[r].token \in DOMAIN uploads
            /\ req'[r] # req[r] )
          => ( /\ req'[r] = Done
               /\ uploads' = uploads
               /\ out'.status = 201
               /\ out'.body = Loads(uploads[req[r].token]) )]_vars

HasRowIn(rows, f, n) ==
    \E i \in 1..Len(rows) : rows[i].file_id = f /\ rows[i].version = n

HasRow(f, n) == HasRowIn(versions, f, n)

\* C15: a download without ?version= takes the version number from the file
\* row as it is when read, so with an upload_new_version racing it the number
\* is the current version of before or of after that commit; for a file not
\* flagged deleted the number taken always has a committed version row, when
\* it is taken and for as long as the download waits to select the row.
C15_ResolvedVersionHasRow ==
    [][\A r \in Reqs :
          /\ ( Arrival(r) /\ req'[r].op = "download_file" /\ req'[r].pc = "vrow" )
             => ( /\ req'[r].file_id \in DOMAIN files
                  /\ req'[r].version = files[req'[r].file_id].current_version
                  /\ req'[r].version = files'[req'[r].file_id].current_version )
          /\ ( /\ req'[r].op = "download_file" /\ req'[r].pc = "vrow"
               /\ ~files'[req'[r].file_id].deleted )
             => HasRowIn(versions', req'[r].file_id, req'[r].version)
          /\ ( /\ req[r].op = "download_file" /\ req[r].pc = "vrow"
               /\ ~files[req[r].file_id].deleted
               /\ req'[r] = Done )
             => out'.status # 404]_vars

\* C15 witness: a download took version 1 from the file row, an
\* upload_new_version committed version 2 of the file before the download
\* selected its row, and the download was then served the old version.
C15_Witness ==
    /\ out.op = "download_file"
    /\ out.status = 200
    /\ out.version = 1
    /\ out.file_id \in DOMAIN files
    /\ ~files[out.file_id].deleted
    /\ files[out.file_id].current_version = 2

\* C16: upload_file always works with version 1, every version row belongs
\* to a file row, and every file row not flagged deleted has its version row
\* 1, so a file row is never seen without a version row.
C16_FileAndFirstVersionTogether ==
    /\ \A r \in Reqs : req[r].op = "upload_file" => req[r].version = 1
    /\ \A i \in 1..Len(versions) : versions[i].file_id \in DOMAIN files
    /\ \A f \in DOMAIN files : ~files[f].deleted => HasRow(f, 1)

\* C16 witness: an upload_file was answered and its file is there with
\* current_version 1 and its version row 1.
C16_Witness ==
    /\ out.op = "upload_file"
    /\ out.status = 201
    /\ out.body.file_id \in DOMAIN files
    /\ ~files[out.body.file_id].deleted
    /\ files[out.body.file_id].current_version = 1
    /\ HasRow(out.body.file_id, 1)

\* C17: a committed version row is never changed: every step leaves the
\* version rows as they are, or inserts one new row after them
\* (upload_file, upload_new_version), or removes all rows of one file
\* (delete_file); the rows that stay keep every column.
C17_VersionRowsImmutable ==
    [][\/ versions' = versions
       \/ /\ Len(versions') = Len(versions) + 1
          /\ SubSeq(versions', 1, Len(versions)) = versions
       \/ \E f \in DOMAIN files : versions' = RowsNotOf(versions, f)]_vars

\* C17 witness: an upload_new_version was answered while rows committed
\* before were there: the file has its row 1 and the new row 2 side by side.
C17_Witness ==
    /\ out.op = "upload_new_version"
    /\ out.status = 200
    /\ HasRow(out.file_id, 1)
    /\ HasRow(out.file_id, 2)

\* C18: for every file not flagged deleted, a version row with the file's
\* current_version exists and the file row's path is the object_key of every
\* such row.
C18_PathIsCurrentObjectKey ==
    \A f \in DOMAIN files :
        ~files[f].deleted =>
            /\ HasRow(f, files[f].current_version)
            /\ \A i \in 1..Len(versions) :
                  ( /\ versions[i].file_id = f
                    /\ versions[i].version = files[f].current_version )
                  => versions[i].object_key = files[f].path

\* C18 witness: a file not flagged deleted is at current_version 2 after an
\* upload_new_version, and its path is the object key of its row 2.
C18_Witness ==
    \E f \in DOMAIN files :
        /\ ~files[f].deleted
        /\ files[f].current_version = 2
        /\ files[f].path = _safe_join(<<f, VTag(2)>>)
        /\ \E i \in 1..Len(versions) :
              /\ versions[i].file_id = f
              /\ versions[i].version = 2
              /\ versions[i].object_key = files[f].path

\* C19: current_version of a file never decreases, and every commit of an
\* upload_new_version sets it to a value strictly greater than the one it
\* replaces.
C19_CurrentVersionGrows ==
    [][/\ \A f \in DOMAIN files :
             files'[f].current_version >= files[f].current_version
       /\ \A r \in Reqs :
             ( /\ req[r].op = "upload_new_version" /\ req[r].pc = "commit"
               /\ req'[r] = Done )
             => files'[req[r].file_id].current_version
                    > files[req[r].file_id].current_version]_vars

\* The first conjunct of the formula above on its own: a step never lowers
\* the current_version of a file.
C19_CurrentVersionNeverDecreases ==
    [][\A f \in DOMAIN files :
          files'[f].current_version >= files[f].current_version]_vars

\* The result stored under token t names a committed file, states version 1
\* and, while the file is not flagged deleted, agrees with the file's version
\* row 1 in object key, checksum and size.
StoredResultIsOfFile(fs, rows, res) ==
    /\ res.file_id \in DOMAIN fs
    /\ res.version = 1
    /\ ~fs[res.file_id].deleted =>
           \E i \in 1..Len(rows) :
               /\ rows[i].file_id = res.file_id
               /\ rows[i].version = 1
               /\ rows[i].object_key = res.path
               /\ rows[i].checksum = res.checksum
               /\ rows[i].size = res.size

\* C20: when an idempotency row is inserted, the file row its result names
\* was committed before that step, and in every state each stored result
\* states version 1 and the checksum and size of the file's version row 1
\* (for as long as delete_file has not removed that row).
C20_StoredResultNamesCommittedFile ==
    [][\A t \in DOMAIN uploads' :
          /\ t \notin DOMAIN uploads
                => StoredResultIsOfFile(files, versions, Loads(uploads'[t]))
          /\ StoredResultIsOfFile(files', versions', Loads(uploads'[t]))]_vars

\* C20 witness: a replay was answered with the stored result of a token, and
\* the file that result names is there with its version row 1.
C20_Witness ==
    /\ out.op = "upload_file"
    /\ out.status = 201
    /\ out.file_id = NoneVal
    /\ out.token \in DOMAIN uploads
    /\ out.body = Loads(uploads[out.token])
    /\ ~files[out.body.file_id].deleted
    /\ StoredResultIsOfFile(files, versions, out.body)

====
